---- MODULE Spec2Model ----
(***************************************************************************)
(* Model of the GaussPy+ decomposition engine:                             *)
(*   - AGD (gausspy_py3/AGD_decomposer.py), one call stepped through its   *)
(*     sections: settings entry, phase-one guess, phase-two guess,         *)
(*     combination, amplitude sort, final fit, improve step, output dict;  *)
(*   - GaussianDecomposer.batch_decomposition (gausspy_py3/gp.py): the     *)
(*     dispatch of the spectra, the aggregation loop and its except        *)
(*     clause.                                                             *)
(* Python values: None is <<>>, a present value x is <<x>>; a dict is a    *)
(* function over its key strings; a numpy parameter vector is a sequence   *)
(* [amps..., fwhms..., means...].                                          *)
(***************************************************************************)
EXTENDS Integers, Sequences, FiniteSets, TLC

VARIABLES
    p,                    \* GaussianDecomposer.p, the settings dictionary
    agd,                  \* the frame (locals) of the running AGD call
    data_list,            \* the science data: spectrum index -> spectrum
    ilist,                \* the spectrum indices to decompose, in input order
    result_list,          \* per input position: the worker's result
    output_data,          \* the batch output mapping (key -> list)
    failed_decompositions,\* messages collected by the except clause
    i,                    \* number of results the aggregation loop has handled
    printed,              \* what the decomposer has printed
    pc,                   \* position of batch_decomposition
    call,                 \* the arguments of the decomposer method called last
    files,                \* the files on disk
    ig,                   \* the frame (locals) of the running initialGuess call
    gpd                   \* the GaussPyDecompose object and its position

vars == <<p, agd, data_list, ilist, result_list, output_data,
          failed_decompositions, i, printed, pc, call, files, ig, gpd>>

\* the state of batch_decomposition
batch_vars == <<data_list, ilist, result_list, output_data,
                failed_decompositions, i, printed, pc, call, files>>

\* the state of the callers and callees stepped in their own specifications
outer_vars == <<ig, gpd>>

(***************************************************************************)
(* Bounds of the model.                                                    *)
(***************************************************************************)
MaxComps == 2        \* candidates the phase-one guess may return
MaxComps2 == 1       \* candidates the phase-two guess may return
MaxSpectra == 2      \* spectra in the science data

AmpVals == {1, 2}    \* amplitudes of candidates, maxima of spectra
Shifts == {1}        \* how far the solver moves a parameter value

NaN == -1            \* the not-a-number channel value (np.nan)

None == <<>>
Some(x) == <<x>>

(***************************************************************************)
(* Python and numpy helpers.                                               *)
(***************************************************************************)
\* s[a:b] for 0 <= a <= b: the elements with 0-based index in [a, min(b, len))
PySlice(s, a, b) ==
    LET hi == IF b < Len(s) THEN b ELSE Len(s)
    IN  IF a >= hi THEN <<>> ELSE SubSeq(s, a + 1, hi)

\* s[w]: numpy fancy indexing by an index sequence (1-based here)
Take(s, w) == [k \in 1..Len(w) |-> s[w[k]]]

\* w[::-1]
Reversed(w) == [k \in 1..Len(w) |-> w[Len(w) + 1 - k]]

\* the permutations of 1..n as sequences
Perms(n) == {w \in [1..n -> 1..n] : \A a, b \in 1..n : a # b => w[a] # w[b]}

\* x * y in floating point: NaN is absorbing
Times(x, y) == IF x = NaN \/ y = NaN THEN NaN ELSE x * y

(***************************************************************************)
(* Inputs: spectra and the candidate sets the peak finder reports.         *)
(* A spectrum is abstracted to what AGD reads from it: whether a channel   *)
(* is NaN and np.max(data).  The candidate set found by the derivative     *)
(* thresholding is an input of the model; candidate k of the guess at      *)
(* scale ph has mean 10*ph + k and FWHM 100 + 10*ph + k, so every          *)
(* component is identified by its mean and by its FWHM.                    *)
(***************************************************************************)
Spectra ==
    {[nan |-> FALSE, max |-> m] : m \in AmpVals} \cup {[nan |-> TRUE, max |-> NaN]}

Found(ph, amps) ==
    [amps |-> amps,
     FWHMs |-> [k \in 1..Len(amps) |-> 100 + 10 * ph + k],
     means |-> [k \in 1..Len(amps) |-> 10 * ph + k],
     N_components |-> Len(amps)]

Candidates(ph, maxn, amps) ==
    {Found(ph, a) : a \in UNION {[1..n -> amps] : n \in 0..maxn}}

\* the improve-fit settings the caller may hand over (None: no improve step)
ImproveDicts ==
    {None} \cup
    {Some([improve_fitting |-> b, max_amp_factor |-> 2, max_fwhm |-> None]) :
        b \in BOOLEAN}

Phases == {"one", "two"}

(***************************************************************************)
(* Collaborators of AGD that live outside AGD_decomposer.py.               *)
(***************************************************************************)
\* initialGuess: None when a channel is NaN, else the dict of the candidates
\* the thresholding found (empty lists and N_components 0 when none).
initialGuess(data, found) ==
    IF data.nan THEN None ELSE Some(found)

\* np.argsort(a), default kind: every index order that sorts a ascending;
\* the order among equal values is not fixed by the default sort kind.
Argsort(a) ==
    {w \in Perms(Len(a)) : \A x, y \in 1..Len(a) : x < y => a[w[x]] <= a[w[y]]}

\* paramvec_to_lmfit, lmfit_minimize, vals_vec_from_lmfit: one value per
\* parameter of the guess vector; the solver moves the values (by shift).
lmfit_vals(params, shift) == [k \in 1..Len(params) |-> params[k] + shift]

\* errs_vec_from_lmfit: one standard error per parameter
lmfit_errs(params) == [k \in 1..Len(params) |-> 0]

\* try_to_improve_fitting: the improve loop returns a fit with m components
\* (it may add or drop components) and its statistics.
try_to_improve_fitting(params_fit, ncomps_fit, m) ==
    [params_fit |-> [k \in 1..(3 * m) |-> 50 + k],
     params_errs |-> [k \in 1..(3 * m) |-> 0],
     ncomps_fit |-> m,
     rchi2 |-> 1, aicc |-> 1, pvalue |-> 1, quality_control |-> <<>>,
     N_neg_res_peak |-> 0, N_blended |-> 0, log_gplus |-> <<>>]

(***************************************************************************)
(* GaussianDecomposer.decompose: the frame of the AGD call it makes.       *)
(***************************************************************************)
Raise(f, e) == [f EXCEPT !.pc = "raised", !.exc = e]

IdleFrame ==
    [pc |-> "idle", exc |-> "", data |-> [nan |-> FALSE, max |-> 1], idx |-> 0,
     alpha1 |-> None, alpha2 |-> None, phase |-> "one",
     perform_final_fit |-> TRUE, improve_fitting_dict |-> None, dct |-> <<>>,
     agd_phase1 |-> None, agd_phase2 |-> None,
     params_guess_phase1 |-> <<>>, ncomps_guess_phase1 |-> 0,
     params_guess_phase2 |-> <<>>, ncomps_guess_phase2 |-> 0,
     ncomps_fit_phase1 |-> 0, residuals |-> "unset", result_success |-> None,
     params_guess_final |-> <<>>, ncomps_guess_final |-> 0,
     amps_temp |-> <<>>, widths_temp |-> <<>>, offsets_temp |-> <<>>,
     w_sort_amp |-> <<>>,
     bound |-> {}, params_fit |-> <<>>, params_errs |-> <<>>, ncomps_fit |-> 0,
     result2_success |-> None, best_fit_list |-> None, odict |-> <<>>]

decompose(settings, ydata, idx) ==
    [IdleFrame EXCEPT
        !.pc = "enter",
        !.data = ydata,
        !.idx = idx,
        !.alpha1 = settings["alpha1"],
        !.alpha2 = IF settings["phase"] = "two" THEN settings["alpha2"] ELSE None,
        !.phase = settings["phase"],
        !.perform_final_fit = settings["perform_final_fit"],
        !.improve_fitting_dict = settings["improve_fitting_dict"]]

(***************************************************************************)
(* AGD, section by section.  Each operator maps the frame at the start of  *)
(* the section (and the outcome of the external computation in it) to the  *)
(* frame at its end.  The plotting section (lines 361-448) runs only with  *)
(* plot set and is left out: the settings keep plot at its default False.  *)
(***************************************************************************)
\* lines 189-196: dct is the caller's dict itself when one is given
AGD_settings(f) ==
    IF f.improve_fitting_dict # None
    THEN LET given == f.improve_fitting_dict[1]
             dct == ("max_amp" :> Some(Times(given["max_amp_factor"], f.data.max)))
                    @@ given
         IN  [f EXCEPT !.dct = dct, !.improve_fitting_dict = Some(dct),
                       !.pc = "phase1"]
    ELSE [f EXCEPT !.dct = [improve_fitting |-> FALSE, max_amp |-> None,
                            max_fwhm |-> None],
                   !.pc = "phase1"]

\* lines 207-221: phase-one guesses
AGD_phase1(f, found) ==
    LET agd_phase1 == initialGuess(f.data, found)
    IN  IF agd_phase1 = None
        THEN Raise([f EXCEPT !.agd_phase1 = None], "TypeError")
        ELSE LET g == agd_phase1[1]
                 params == g.amps \o g.FWHMs \o g.means
             IN  [f EXCEPT !.agd_phase1 = agd_phase1,
                           !.params_guess_phase1 = params,
                           !.ncomps_guess_phase1 = Len(params) \div 3,
                           !.ncomps_guess_phase2 = 0,
                           !.ncomps_fit_phase1 = 0,
                           !.pc = "phase2"]

\* AGD_phase2 with the residual subtracted whatever the solver reported
AGD_phase2_always_subtracts(f, success, found) ==
    IF f.phase # "two" THEN [f EXCEPT !.pc = "combine"]
    ELSE
    LET f1 == IF f.ncomps_guess_phase1 = 0
              THEN [f EXCEPT !.residuals = "data"]
              ELSE [f EXCEPT
                      !.ncomps_fit_phase1 =
                          Len(lmfit_vals(f.params_guess_phase1, 0)) \div 3,
                      !.result_success = Some(success),
                      !.residuals = "filtered"]
        agd_phase2 == initialGuess(f.data, found)
    IN  IF agd_phase2 = None
        THEN Raise(f1, "TypeError")
        ELSE LET g == agd_phase2[1]
             IN  [f1 EXCEPT
                    !.agd_phase2 = agd_phase2,
                    !.ncomps_guess_phase2 = g.N_components,
                    !.params_guess_phase2 =
                        IF g.N_components > 0
                        THEN g.amps \o g.FWHMs \o g.means ELSE <<>>,
                    !.pc = "combine"]

\* lines 226-289: residual and phase-two guesses.  residuals names the
\* signal handed to the phase-two guess: "data" is the original data,
\* "filtered" the median-filtered data - intermediate_model.
AGD_phase2(f, success, found) ==
    IF f.phase # "two" THEN [f EXCEPT !.pc = "combine"]
    ELSE
    LET f1 == IF f.ncomps_guess_phase1 = 0
              THEN [f EXCEPT !.residuals = "data"]
              ELSE [f EXCEPT
                      !.ncomps_fit_phase1 =
                          Len(lmfit_vals(f.params_guess_phase1, 0)) \div 3,
                      !.result_success = Some(success),
                      !.residuals = IF success THEN "filtered" ELSE "data"]
        agd_phase2 == initialGuess(f.data, found)
    IN  IF agd_phase2 = None
        THEN Raise(f1, "TypeError")
        ELSE LET g == agd_phase2[1]
             IN  [f1 EXCEPT
                    !.agd_phase2 = agd_phase2,
                    !.ncomps_guess_phase2 = g.N_components,
                    !.params_guess_phase2 =
                        IF g.N_components > 0
                        THEN g.amps \o g.FWHMs \o g.means ELSE <<>>,
                    !.pc = "combine"]

\* AGD_combine with the two guess vectors appended whole
AGD_combine_appended(f) ==
    LET params == IF f.phase = "two" /\ f.ncomps_guess_phase2 > 0
                  THEN f.params_guess_phase1 \o f.params_guess_phase2
                  ELSE f.params_guess_phase1
    IN  [f EXCEPT !.params_guess_final = params,
                  !.ncomps_guess_final = Len(params) \div 3,
                  !.pc = "sort"]

\* lines 295-303: the final guess list
AGD_combine(f) ==
    LET n1 == f.ncomps_guess_phase1
        n2 == f.ncomps_guess_phase2
        p1 == f.params_guess_phase1
        p2 == f.params_guess_phase2
    IN  IF f.phase = "two" /\ n2 > 0
        THEN LET amps_guess_final == PySlice(p1, 0, n1) \o PySlice(p2, 0, n2)
                 widths_guess_final ==
                     PySlice(p1, n1, 2 * n1) \o PySlice(p2, n2, 2 * n2)
                 offsets_guess_final ==
                     PySlice(p1, 2 * n1, 3 * n1) \o PySlice(p2, 2 * n2, 3 * n2)
                 params == amps_guess_final \o widths_guess_final
                           \o offsets_guess_final
             IN  [f EXCEPT !.params_guess_final = params,
                           !.ncomps_guess_final = Len(params) \div 3,
                           !.pc = "sort"]
        ELSE [f EXCEPT !.params_guess_final = p1,
                       !.ncomps_guess_final = Len(p1) \div 3,
                       !.pc = "sort"]

\* AGD_sort without the reversal [::-1] of the argsort order
AGD_sort_ascending(f, w) ==
    LET n == f.ncomps_guess_final
        amps_temp == PySlice(f.params_guess_final, 0, n)
        widths_temp == PySlice(f.params_guess_final, n, 2 * n)
        offsets_temp == PySlice(f.params_guess_final, 2 * n, 3 * n)
    IN  [f EXCEPT
           !.amps_temp = amps_temp,
           !.widths_temp = widths_temp,
           !.offsets_temp = offsets_temp,
           !.w_sort_amp = w,
           !.params_guess_final =
               Take(amps_temp, w) \o Take(widths_temp, w) \o Take(offsets_temp, w),
           !.pc = "fit"]

\* lines 305-312: sort the final guess list by amplitude; w is the index
\* order np.argsort returned
AGD_sort(f, w) ==
    LET n == f.ncomps_guess_final
        amps_temp == PySlice(f.params_guess_final, 0, n)
        widths_temp == PySlice(f.params_guess_final, n, 2 * n)
        offsets_temp == PySlice(f.params_guess_final, 2 * n, 3 * n)
        w_sort_amp == Reversed(w)
    IN  [f EXCEPT
           !.amps_temp = amps_temp,
           !.widths_temp = widths_temp,
           !.offsets_temp = offsets_temp,
           !.w_sort_amp = w_sort_amp,
           !.params_guess_final =
               Take(amps_temp, w_sort_amp) \o Take(widths_temp, w_sort_amp)
               \o Take(offsets_temp, w_sort_amp),
           !.pc = "fit"]

\* lines 314-335: the final fit
AGD_final_fit(f, shift, success) ==
    IF f.perform_final_fit /\ f.ncomps_guess_final > 0
    THEN LET params_fit == lmfit_vals(f.params_guess_final, shift)
         IN  [f EXCEPT !.params_fit = params_fit,
                       !.params_errs = lmfit_errs(f.params_guess_final),
                       !.ncomps_fit = Len(params_fit) \div 3,
                       !.result2_success = Some(success),
                       !.bound = {"params_fit", "params_errs", "ncomps_fit"},
                       !.pc = "improve"]
    ELSE [f EXCEPT !.pc = "improve"]

\* AGD_improve without line 358 (ncomps_guess_final = ncomps_fit)
AGD_improve_keeps_guess_count(f, m) ==
    IF ~ f.dct["improve_fitting"] THEN [f EXCEPT !.pc = "odict"]
    ELSE
    LET f1 == IF f.ncomps_guess_final = 0
              THEN [f EXCEPT !.ncomps_fit = 0, !.params_fit = <<>>,
                             !.bound = @ \cup {"ncomps_fit", "params_fit"}]
              ELSE f
    IN  IF ~ ({"params_fit", "ncomps_fit"} \subseteq f1.bound)
        THEN Raise(f1, "UnboundLocalError")
        ELSE LET best_fit_list ==
                     try_to_improve_fitting(f1.params_fit, f1.ncomps_fit, m)
             IN  [f1 EXCEPT
                    !.best_fit_list = Some(best_fit_list),
                    !.params_fit = best_fit_list.params_fit,
                    !.params_errs = best_fit_list.params_errs,
                    !.ncomps_fit = best_fit_list.ncomps_fit,
                    !.bound = {"params_fit", "params_errs", "ncomps_fit"},
                    !.pc = "odict"]

\* lines 339-358: the improve step; m is the component count it ends with
AGD_improve(f, m) ==
    IF ~ f.dct["improve_fitting"] THEN [f EXCEPT !.pc = "odict"]
    ELSE
    LET f1 == IF f.ncomps_guess_final = 0
              THEN [f EXCEPT !.ncomps_fit = 0, !.params_fit = <<>>,
                             !.bound = @ \cup {"ncomps_fit", "params_fit"}]
              ELSE f
    IN  IF ~ ({"params_fit", "ncomps_fit"} \subseteq f1.bound)
        THEN Raise(f1, "UnboundLocalError")
        ELSE LET best_fit_list ==
                     try_to_improve_fitting(f1.params_fit, f1.ncomps_fit, m)
             IN  [f1 EXCEPT
                    !.best_fit_list = Some(best_fit_list),
                    !.params_fit = best_fit_list.params_fit,
                    !.params_errs = best_fit_list.params_errs,
                    !.ncomps_fit = best_fit_list.ncomps_fit,
                    !.bound = {"params_fit", "params_errs", "ncomps_fit"},
                    !.ncomps_guess_final = best_fit_list.ncomps_fit,
                    !.pc = "odict"]

\* lines 450-466: the output dictionary
AGD_odict(f) ==
    LET base == [initial_parameters |-> f.params_guess_final,
                 N_components |-> f.ncomps_guess_final,
                 index |-> f.idx]
        fitted == f.perform_final_fit /\ f.ncomps_guess_final > 0
        with_fit == IF fitted
                    THEN [best_fit_parameters |-> f.params_fit,
                          best_fit_errors |-> f.params_errs] @@ base
                    ELSE base
        b == f.best_fit_list[1]
        with_improved ==
            IF f.dct["improve_fitting"]
            THEN [best_fit_rchi2 |-> b.rchi2, best_fit_aicc |-> b.aicc,
                  pvalue |-> b.pvalue, N_neg_res_peak |-> b.N_neg_res_peak,
                  N_blended |-> b.N_blended, log_gplus |-> b.log_gplus,
                  quality_control |-> b.quality_control] @@ with_fit
            ELSE with_fit
    IN  IF fitted /\ ~ ({"params_fit", "params_errs"} \subseteq f.bound)
        THEN Raise(f, "UnboundLocalError")
        ELSE [f EXCEPT !.odict = with_improved, !.pc = "done"]

(***************************************************************************)
(* initialGuess, section by section.  The derivative signals come from a   *)
(* convolution of the data and are inputs here: position c of the spectrum *)
(* carries u2 (the second derivative at channel c + 1), zero (the sign of  *)
(* the third derivative changes between channels c and c + 1), mask1 (raw  *)
(* intensity above its threshold) and mask3 (positive fourth derivative).  *)
(* alpha is kept in tenths (alpha10 = 56 is alpha = 5.6).  The candidate   *)
(* at position c has raw amplitude 10 + c, FWHM 100 + c and mean c.        *)
(***************************************************************************)
MaxChannels == 2     \* positions of a spectrum the peak finder looks at

Alphas10 == {26, 56, 64}          \* alpha = 2.6, 5.6, 6.4
SNR2Vals == {-1, 0, 5}            \* SNR2_thresh
U2Vals == {-1, 0, 1}              \* values of the second derivative
RMSD2Vals == {0, 1}               \* noise of the second derivative
CorrectedAmps == {-1, 0, 1}       \* amplitudes the least-squares step returns

Max2(x, y) == IF x >= y THEN x ELSE y

\* np.fix of a positive number given in tenths: truncation
np_fix(x10) == x10 \div 10

\* round of a positive number given in tenths: the nearest integer
Round(x10) == (x10 + 5) \div 10

\* lines 47-49: the half-width gauss_dn of the smoothing kernel
gauss_dn(alpha10) ==
    LET gauss_sigma_int == Max2(np_fix(alpha10), 5)
    IN  gauss_sigma_int * 6

IdleGuess ==
    [pc |-> "idle", nan |-> FALSE, alpha10 |-> 0, SNR2_thresh |-> 0,
     gauss_dn |-> 0, chans |-> <<>>, thresh2 |-> 0, mask4 |-> <<>>,
     zeros |-> <<>>, indices_of_offsets |-> <<>>, N_components |-> 0,
     amps_raw |-> <<>>, amps_new |-> <<>>, odict |-> None]

\* lines 86-94: entry; a NaN channel ends the call with None
Guess_enter(nan, alpha10, snr2) ==
    [IdleGuess EXCEPT !.pc = IF nan THEN "done" ELSE "derivatives",
                      !.nan = nan, !.alpha10 = alpha10, !.SNR2_thresh = snr2]

\* lines 102-105: the regularized derivatives
Guess_derivatives(g, chans) ==
    [g EXCEPT !.gauss_dn = gauss_dn(g.alpha10), !.chans = chans,
              !.pc = "threshold"]

\* Guess_threshold with <= for < in the second-derivative mask
Guess_threshold_le(g, RMSD2) ==
    LET thresh2 == IF g.SNR2_thresh > 0 THEN (0 - RMSD2) * g.SNR2_thresh ELSE 0
    IN  [g EXCEPT !.thresh2 = thresh2,
                  !.mask4 = [c \in 1..Len(g.chans) |-> g.chans[c].u2 <= thresh2],
                  !.pc = "optima"]

\* lines 113-125: the thresholds and the second-derivative mask
Guess_threshold(g, RMSD2) ==
    LET thresh2 == IF g.SNR2_thresh > 0 THEN (0 - RMSD2) * g.SNR2_thresh ELSE 0
    IN  [g EXCEPT !.thresh2 = thresh2,
                  !.mask4 = [c \in 1..Len(g.chans) |-> g.chans[c].u2 < thresh2],
                  !.pc = "optima"]

\* the elements of s at the positions where sel holds, in order
RECURSIVE Where(_, _)
Where(sel, c) ==
    IF c > Len(sel) THEN <<>>
    ELSE (IF sel[c] THEN <<c>> ELSE <<>>) \o Where(sel, c + 1)

\* lines 129-143: the optima of the second derivative; no candidate ends
\* the call with the empty guess
Guess_optima(g) ==
    LET zeros == [c \in 1..Len(g.chans) |->
                     /\ g.chans[c].zero /\ g.chans[c].mask1
                     /\ g.chans[c].mask3 /\ g.mask4[c]]
        indices_of_offsets == Where(zeros, 1)
        N_components == Len(indices_of_offsets)
        g1 == [g EXCEPT !.zeros = zeros,
                        !.indices_of_offsets = indices_of_offsets,
                        !.N_components = N_components]
    IN  IF N_components = 0
        THEN [g1 EXCEPT !.odict = Some([means |-> <<>>, FWHMs |-> <<>>,
                                        amps |-> <<>>, N_components |-> 0]),
                        !.pc = "done"]
        ELSE [g1 EXCEPT !.pc = "deblend"]

\* lines 146-170: widths, amplitudes and the deblending; amps_new is what
\* the least-squares step returned
Guess_deblend(g, amps_new) ==
    LET idx == g.indices_of_offsets
        FWHMs == [k \in 1..Len(idx) |-> 100 + idx[k]]
        amps == [k \in 1..Len(idx) |-> 10 + idx[k]]
        kept == IF \A k \in 1..Len(amps_new) : amps_new[k] > 0
                THEN amps_new ELSE amps
    IN  [g EXCEPT !.amps_raw = amps, !.amps_new = amps_new,
                  !.odict = Some([means |-> idx, FWHMs |-> FWHMs, amps |-> kept,
                                  N_components |-> g.N_components]),
                  !.pc = "done"]

(***************************************************************************)
(* The settings dictionary.                                                *)
(***************************************************************************)
\* GaussianDecomposer.__init__
InitialSettings ==
    [alpha1 |-> None, alpha2 |-> None, training_results |-> None,
     improve_fitting_dict |-> None, use_ncpus |-> None, phase |-> "one",
     SNR2_thresh |-> 5, SNR_thresh |-> 5, verbose |-> FALSE, plot |-> FALSE,
     perform_final_fit |-> TRUE]

\* set without the test of the key (self.p[key] = value)
set_any_key(settings, key, value) ==
    [k \in DOMAIN settings \cup {key} |-> IF k = key THEN value ELSE settings[k]]

\* GaussianDecomposer.set
set(settings, key, value) ==
    IF key \in DOMAIN settings THEN [settings EXCEPT ![key] = value] ELSE settings

\* the settings a caller has configured before it decomposes: both
\* regularization scales, the phase, the final-fit flag, the improve-fit dict
Configured(phase, perform_final_fit, improve_fitting_dict) ==
    set(set(set(set(set(InitialSettings,
        "alpha1", Some(1)), "alpha2", Some(2)), "phase", phase),
        "perform_final_fit", perform_final_fit),
        "improve_fitting_dict", improve_fitting_dict)

ConfiguredSettings ==
    {Configured(ph, pff, d) : ph \in Phases, pff \in BOOLEAN, d \in ImproveDicts}

\* the arguments of the decomposer method called last
NoCall ==
    [method |-> "none", args |-> None, dct |-> None, key |-> "", value |-> None]

\* batch_decomposition(*args, dct=dct)
BatchCall(args, dct) ==
    [NoCall EXCEPT !.method = "batch_decomposition", !.args = args, !.dct = dct]

\* set(key, value)
SetCall(key, value) ==
    [NoCall EXCEPT !.method = "set", !.key = key, !.value = value]

(***************************************************************************)
(* Specification SpecSet: a caller that makes set call after set call on   *)
(* a GaussianDecomposer.                                                   *)
(***************************************************************************)
MaxPrinted == 2      \* messages the model keeps of what was printed

\* keys a caller passes that __init__ does not create
UnknownKeys == {"settings_improve_fit", "two_phase"}

SetKeys ==
    {"alpha1", "alpha2", "use_ncpus", "phase", "verbose", "perform_final_fit",
     "improve_fitting_dict"} \cup UnknownKeys

SetValues(key) ==
    CASE key \in {"alpha1", "alpha2"} -> {None, Some(1), Some(2)}
      [] key = "use_ncpus" -> {None, Some(2)}
      [] key = "phase" -> Phases
      [] key \in {"verbose", "perform_final_fit"} -> BOOLEAN
      [] key = "improve_fitting_dict" -> ImproveDicts
      [] OTHER -> {None, Some(1)}

InitSet ==
    /\ p = InitialSettings
    /\ agd = IdleFrame
    /\ data_list = <<>>
    /\ ilist = <<>>
    /\ result_list = <<>>
    /\ output_data = <<>>
    /\ failed_decompositions = <<>>
    /\ i = 0
    /\ printed = <<>>
    /\ pc = "set"
    /\ call = NoCall
    /\ files = {}
    /\ ig = IdleGuess
    /\ gpd = None

\* GaussianDecomposer.set(key, value), with its print for a key that does
\* not exist
Set ==
    /\ \E key \in SetKeys : \E value \in SetValues(key) :
          /\ key \notin DOMAIN p => Len(printed) < MaxPrinted
          /\ p' = set(p, key, value)
          /\ call' = SetCall(key, value)
          /\ printed' = IF key \in DOMAIN p THEN printed
                        ELSE Append(printed, "Given key does not exist.")
    /\ UNCHANGED <<agd, data_list, ilist, result_list, output_data,
                   failed_decompositions, i, pc, files, outer_vars>>

NextSet == Set

SpecSet == InitSet /\ [][NextSet]_vars

(***************************************************************************)
(* Specification SpecGuess: a caller that runs initialGuess on spectrum    *)
(* after spectrum.                                                         *)
(***************************************************************************)
Channels ==
    [u2 : U2Vals, zero : BOOLEAN, mask1 : BOOLEAN, mask3 : BOOLEAN]

InitGuess ==
    /\ p = InitialSettings
    /\ agd = IdleFrame
    /\ data_list = <<>>
    /\ ilist = <<>>
    /\ result_list = <<>>
    /\ output_data = <<>>
    /\ failed_decompositions = <<>>
    /\ i = 0
    /\ printed = <<>>
    /\ pc = "guess"
    /\ call = NoCall
    /\ files = {}
    /\ ig = IdleGuess
    /\ gpd = None

guess_frame_vars == <<p, agd, batch_vars, gpd>>

GuessCall ==
    /\ ig.pc \in {"idle", "done"}
    /\ \E nan \in BOOLEAN, alpha10 \in Alphas10, snr2 \in SNR2Vals :
           ig' = Guess_enter(nan, alpha10, snr2)
    /\ UNCHANGED guess_frame_vars

GuessDerivatives ==
    /\ ig.pc = "derivatives"
    /\ \E chans \in [1..MaxChannels -> Channels] :
           ig' = Guess_derivatives(ig, chans)
    /\ UNCHANGED guess_frame_vars

GuessThreshold ==
    /\ ig.pc = "threshold"
    /\ \E RMSD2 \in RMSD2Vals : ig' = Guess_threshold(ig, RMSD2)
    /\ UNCHANGED guess_frame_vars

GuessOptima ==
    /\ ig.pc = "optima"
    /\ ig' = Guess_optima(ig)
    /\ UNCHANGED guess_frame_vars

GuessDeblend ==
    /\ ig.pc = "deblend"
    /\ \E amps_new \in [1..ig.N_components -> CorrectedAmps] :
           ig' = Guess_deblend(ig, amps_new)
    /\ UNCHANGED guess_frame_vars

NextGuess ==
    \/ GuessCall
    \/ GuessDerivatives
    \/ GuessThreshold
    \/ GuessOptima
    \/ GuessDeblend

SpecGuess == InitGuess /\ [][NextGuess]_vars

(***************************************************************************)
(* Specification SpecAGD: a caller that decomposes spectrum after spectrum *)
(* in-process with one GaussianDecomposer (decompose -> AGD).              *)
(***************************************************************************)

InitAGD ==
    /\ p \in ConfiguredSettings
    /\ agd = IdleFrame
    /\ data_list = <<>>
    /\ ilist = <<>>
    /\ result_list = <<>>
    /\ output_data = <<>>
    /\ failed_decompositions = <<>>
    /\ i = 0
    /\ printed = <<>>
    /\ pc = "agd"
    /\ call = NoCall
    /\ files = {}
    /\ ig = IdleGuess
    /\ gpd = None

\* GaussianDecomposer.decompose is called for a spectrum
Decompose ==
    /\ agd.pc \in {"idle", "done", "raised"}
    /\ \E ydata \in Spectra : agd' = decompose(p, ydata, 0)
    /\ UNCHANGED <<p, batch_vars, outer_vars>>

\* the dict AGD writes to is the object the settings dictionary refers to
Settings ==
    /\ agd.pc = "enter"
    /\ agd' = AGD_settings(agd)
    /\ p' = [p EXCEPT !["improve_fitting_dict"] = agd'.improve_fitting_dict]
    /\ UNCHANGED <<batch_vars, outer_vars>>

PhaseOne ==
    /\ agd.pc = "phase1"
    /\ \E found \in Candidates(1, MaxComps, AmpVals) : agd' = AGD_phase1(agd, found)
    /\ UNCHANGED <<p, batch_vars, outer_vars>>

PhaseTwo ==
    /\ agd.pc = "phase2"
    /\ \E success \in BOOLEAN, found \in Candidates(2, MaxComps2, AmpVals) :
           agd' = AGD_phase2(agd, success, found)
    /\ UNCHANGED <<p, batch_vars, outer_vars>>

Combine ==
    /\ agd.pc = "combine"
    /\ agd' = AGD_combine(agd)
    /\ UNCHANGED <<p, batch_vars, outer_vars>>

Sort ==
    /\ agd.pc = "sort"
    /\ \E w \in Argsort(PySlice(agd.params_guess_final, 0, agd.ncomps_guess_final)) :
           agd' = AGD_sort(agd, w)
    /\ UNCHANGED <<p, batch_vars, outer_vars>>

FinalFit ==
    /\ agd.pc = "fit"
    /\ \E shift \in Shifts, success \in BOOLEAN :
           agd' = AGD_final_fit(agd, shift, success)
    /\ UNCHANGED <<p, batch_vars, outer_vars>>

Improve ==
    /\ agd.pc = "improve"
    /\ \E m \in 0..MaxComps : agd' = AGD_improve(agd, m)
    /\ UNCHANGED <<p, batch_vars, outer_vars>>

Odict ==
    /\ agd.pc = "odict"
    /\ agd' = AGD_odict(agd)
    /\ UNCHANGED <<p, batch_vars, outer_vars>>

NextAGD ==
    \/ Decompose
    \/ Settings
    \/ PhaseOne
    \/ PhaseTwo
    \/ Combine
    \/ Sort
    \/ FinalFit
    \/ Improve
    \/ Odict

SpecAGD == InitAGD /\ [][NextAGD]_vars

(***************************************************************************)
(* AGD as one call: the frames it can end in (pc "done": returned          *)
(* (1, odict); pc "raised": an exception left AGD), for the candidate sets *)
(* cands1/cands2 the two guesses may find and the component counts ms the  *)
(* improve step may end with.                                              *)
(***************************************************************************)
AGD(f0, cands1, cands2, ms) ==
    LET s1 == AGD_settings(f0)
        S2 == {AGD_phase1(s1, c) : c \in cands1}
        S3 == UNION {IF f.pc = "phase2"
                     THEN {AGD_phase2(f, s, c) : s \in BOOLEAN, c \in cands2}
                     ELSE {f} : f \in S2}
        S4 == {IF f.pc = "combine" THEN AGD_combine(f) ELSE f : f \in S3}
        S5 == UNION {IF f.pc = "sort"
                     THEN {AGD_sort(f, w) :
                           w \in Argsort(PySlice(f.params_guess_final, 0,
                                                 f.ncomps_guess_final))}
                     ELSE {f} : f \in S4}
        S6 == UNION {IF f.pc = "fit"
                     THEN {AGD_final_fit(f, sh, ok) : sh \in Shifts, ok \in BOOLEAN}
                     ELSE {f} : f \in S5}
        S7 == UNION {IF f.pc = "improve"
                     THEN {AGD_improve(f, m) : m \in ms}
                     ELSE {f} : f \in S6}
    IN  {IF f.pc = "odict" THEN AGD_odict(f) ELSE f : f \in S7}

(***************************************************************************)
(* The worker pool (parallel_processing).                                  *)
(***************************************************************************)
\* init_gausspy: ilist None stands for every spectrum of the science data
Dispatched(given, n) ==
    IF given = None THEN [k \in 1..n |-> k - 1] ELSE given[1]

Pending == [kind |-> "pending", d |-> <<>>]
NoneResult == [kind |-> "None", d |-> <<>>]
ExcResult == [kind |-> "exc", d |-> <<>>]
DictResult(d) == [kind |-> "dict", d |-> d]

\* what the pool hands back for a worker whose AGD call ended in frame f:
\* the result dict, or for a raising worker None or the exception object
WorkerResults(f) ==
    IF f.pc = "done" THEN {DictResult(f.odict)} ELSE {NoneResult, ExcResult}

\* what the peak finder reports inside a batch worker
BatchCandidates(ph) == {Found(ph, <<>>), Found(ph, <<2 + ph>>)}
BatchImproved == {0, 1}
BatchSpectra == {s \in Spectra : s.nan \/ s.max = 1}

\* decompose_one(idx): GaussianDecomposer.decompose on spectrum idx
decompose_one(settings, science, idx) ==
    UNION {WorkerResults(f) :
           f \in AGD(decompose(settings, science[idx], idx),
                     BatchCandidates(1), BatchCandidates(2), BatchImproved)}

\* the file the decomposer, the data path and ilist are dumped to
TempFile == "batchdecomp_temp.pickle"

(***************************************************************************)
(* batch_decomposition: the aggregation of the results.                    *)
(***************************************************************************)
new_keys ==
    <<"index_fit", "amplitudes_fit", "fwhms_fit", "means_fit",
      "N_components_initial", "amplitudes_initial", "fwhms_initial",
      "means_initial", "amplitudes_fit_err", "fwhms_fit_err", "means_fit_err",
      "best_fit_rchi2", "best_fit_aicc", "N_components", "N_neg_res_peak",
      "N_blended", "log_gplus", "pvalue", "quality_control">>

KeySet(keys) == {keys[k] : k \in 1..Len(keys)}

\* the keys copied from the result when present (lines 164-166)
optional_keys ==
    <<"best_fit_rchi2", "best_fit_aicc", "N_neg_res_peak", "N_blended",
      "log_gplus", "pvalue", "quality_control">>

\* output_data[key].append(v)
App(od, key, v) == [od EXCEPT ![key] = Append(@, v)]

\* lines 174-175: the keys the except clause appends None to
except_keys == new_keys

\* UnpackResult with the initial fields sliced by N_components instead of
\* len(initial_parameters) / 3
UnpackResult_initial_by_ncomps(od, result) ==
    IF result.kind # "dict" THEN [od |-> od, exc |-> "TypeError"]
    ELSE
    LET d == result.d IN
    IF ~ ({"index", "N_components"} \subseteq DOMAIN d)
    THEN [od |-> od, exc |-> "KeyError"]
    ELSE
    LET idx == d["index"]
        ncomps == d["N_components"]
    IN
    IF ncomps > 0 /\ "best_fit_parameters" \notin DOMAIN d
    THEN [od |-> od, exc |-> "KeyError"]
    ELSE
    LET best == IF ncomps > 0 THEN d["best_fit_parameters"] ELSE <<>>
        amps == PySlice(best, 0, ncomps)
        fwhms == PySlice(best, ncomps, 2 * ncomps)
        offsets == PySlice(best, 2 * ncomps, 3 * ncomps)
        od1 == App(App(App(App(App(od,
                   "index_fit", Some(idx)),
                   "N_components", Some(ncomps)),
                   "amplitudes_fit", Some(amps)),
                   "fwhms_fit", Some(fwhms)),
                   "means_fit", Some(offsets))
    IN
    IF "initial_parameters" \notin DOMAIN d
    THEN [od |-> od1, exc |-> "KeyError"]
    ELSE
    LET ini == d["initial_parameters"]
        ncomps_initial == ncomps
        amps_initial == PySlice(ini, 0, ncomps_initial)
        fwhms_initial == PySlice(ini, ncomps_initial, 2 * ncomps_initial)
        offsets_initial == PySlice(ini, 2 * ncomps_initial, 3 * ncomps_initial)
        od2 == App(App(App(App(od1,
                   "means_initial", Some(offsets_initial)),
                   "fwhms_initial", Some(fwhms_initial)),
                   "amplitudes_initial", Some(amps_initial)),
                   "N_components_initial", Some(ncomps_initial))
    IN
    IF ncomps > 0 /\ "best_fit_errors" \notin DOMAIN d
    THEN [od |-> od2, exc |-> "KeyError"]
    ELSE
    LET errs == IF ncomps > 0 THEN d["best_fit_errors"] ELSE <<>>
        od3 == App(App(App(od2,
                   "amplitudes_fit_err", Some(PySlice(errs, 0, ncomps))),
                   "fwhms_fit_err", Some(PySlice(errs, ncomps, 2 * ncomps))),
                   "means_fit_err", Some(PySlice(errs, 2 * ncomps, 3 * ncomps)))
        od4 == [key \in DOMAIN od3 |->
                   IF key \in KeySet(optional_keys)
                   THEN Append(od3[key],
                               IF key \in DOMAIN d THEN Some(d[key]) ELSE None)
                   ELSE od3[key]]
    IN  [od |-> od4, exc |-> ""]

\* lines 131-168: the body of the try.  exc names the exception that ended
\* it ("" when it ran to its end); od is the output as the body left it.
UnpackResult(od, result) ==
    IF result.kind # "dict" THEN [od |-> od, exc |-> "TypeError"]
    ELSE
    LET d == result.d IN
    IF ~ ({"index", "N_components"} \subseteq DOMAIN d)
    THEN [od |-> od, exc |-> "KeyError"]
    ELSE
    LET idx == d["index"]
        ncomps == d["N_components"]
    IN
    IF ncomps > 0 /\ "best_fit_parameters" \notin DOMAIN d
    THEN [od |-> od, exc |-> "KeyError"]
    ELSE
    LET best == IF ncomps > 0 THEN d["best_fit_parameters"] ELSE <<>>
        amps == PySlice(best, 0, ncomps)
        fwhms == PySlice(best, ncomps, 2 * ncomps)
        offsets == PySlice(best, 2 * ncomps, 3 * ncomps)
        od1 == App(App(App(App(App(od,
                   "index_fit", Some(idx)),
                   "N_components", Some(ncomps)),
                   "amplitudes_fit", Some(amps)),
                   "fwhms_fit", Some(fwhms)),
                   "means_fit", Some(offsets))
    IN
    IF "initial_parameters" \notin DOMAIN d
    THEN [od |-> od1, exc |-> "KeyError"]
    ELSE
    LET ini == d["initial_parameters"]
        ncomps_initial == Len(ini) \div 3
        amps_initial == PySlice(ini, 0, ncomps_initial)
        fwhms_initial == PySlice(ini, ncomps_initial, 2 * ncomps_initial)
        offsets_initial == PySlice(ini, 2 * ncomps_initial, 3 * ncomps_initial)
        od2 == App(App(App(App(od1,
                   "means_initial", Some(offsets_initial)),
                   "fwhms_initial", Some(fwhms_initial)),
                   "amplitudes_initial", Some(amps_initial)),
                   "N_components_initial", Some(ncomps_initial))
    IN
    IF ncomps > 0 /\ "best_fit_errors" \notin DOMAIN d
    THEN [od |-> od2, exc |-> "KeyError"]
    ELSE
    LET errs == IF ncomps > 0 THEN d["best_fit_errors"] ELSE <<>>
        od3 == App(App(App(od2,
                   "amplitudes_fit_err", Some(PySlice(errs, 0, ncomps))),
                   "fwhms_fit_err", Some(PySlice(errs, ncomps, 2 * ncomps))),
                   "means_fit_err", Some(PySlice(errs, 2 * ncomps, 3 * ncomps)))
        od4 == [key \in DOMAIN od3 |->
                   IF key \in KeySet(optional_keys)
                   THEN Append(od3[key],
                               IF key \in DOMAIN d THEN Some(d[key]) ELSE None)
                   ELSE od3[key]]
    IN  [od |-> od4, exc |-> ""]

\* ExceptTypeError without line 176 (output_data['index_fit'][i] = i)
ExceptTypeError_all_none(od, failed, n, result) ==
    [od |-> [key \in DOMAIN od |->
                IF key \in KeySet(except_keys) THEN Append(od[key], None)
                ELSE od[key]],
     failed |-> IF result.kind # "None"
                THEN Append(failed, [index |-> n, result |-> result])
                ELSE failed,
     exc |-> ""]

\* lines 169-176: the except TypeError clause, for the result at 0-based
\* position n
ExceptTypeError(od, failed, n, result) ==
    LET failed1 == IF result.kind # "None"
                   THEN Append(failed, [index |-> n, result |-> result])
                   ELSE failed
        od1 == [key \in DOMAIN od |->
                   IF key \in KeySet(except_keys) THEN Append(od[key], None)
                   ELSE od[key]]
    IN  IF Len(od1["index_fit"]) < n + 1
        THEN [od |-> od1, failed |-> failed1, exc |-> "IndexError"]
        ELSE [od |-> [od1 EXCEPT !["index_fit"][n + 1] = Some(n)],
              failed |-> failed1, exc |-> ""]

\* lines 128-176: one iteration of the loop
LoopBody(od, failed, n, result) ==
    LET u == UnpackResult(od, result)
    IN  IF u.exc = "TypeError" THEN ExceptTypeError(u.od, failed, n, result)
        ELSE [od |-> u.od, failed |-> failed, exc |-> u.exc]

(***************************************************************************)
(* Specification Spec: one batch_decomposition over a science data set.    *)
(***************************************************************************)
Indices == 0..(MaxSpectra - 1)

\* ilist: None, or a list of distinct spectrum indices in any order
IlistChoices ==
    {None} \cup
    {Some(w) : w \in {v \in UNION {[1..n -> Indices] : n \in 1..MaxSpectra} :
                        \A a, b \in 1..Len(v) : a # b => v[a] # v[b]}}

\* the spectrum indices handed to the workers, in input order
InputIndices == Dispatched(ilist, Cardinality(DOMAIN data_list))

Init ==
    /\ p \in ConfiguredSettings
    /\ agd = IdleFrame
    /\ data_list \in [Indices -> BatchSpectra]
    /\ ilist \in IlistChoices
    /\ result_list = <<>>
    /\ output_data = <<>>
    /\ failed_decompositions = <<>>
    /\ i = 0
    /\ printed = <<>>
    /\ pc = "idle"
    /\ call = BatchCall(Some("science_data.pickle"), None)
    /\ files = {}
    /\ ig = IdleGuess
    /\ gpd = None

\* lines 91-96: the decomposer and the index list are handed to the pool,
\* one task per dispatched spectrum
StartBatch ==
    /\ pc = "idle"
    /\ call.args # None
    /\ files' = files \cup {TempFile}
    /\ pc' = "pool"
    /\ result_list' = [k \in 1..Len(InputIndices) |-> Pending]
    /\ UNCHANGED <<outer_vars, call, p, agd, data_list, ilist, output_data,
                   failed_decompositions, i, printed>>

\* a worker finishes the task at input position k; the pool keeps the
\* results by input position, whatever the order of completion; agd is
\* the frame its AGD call was entered with
Worker ==
    /\ pc = "pool"
    /\ \E k \in 1..Len(result_list) :
          /\ result_list[k] = Pending
          /\ \E r \in decompose_one(p, data_list, InputIndices[k]) :
                 result_list' = [result_list EXCEPT ![k] = r]
          /\ agd' = decompose(p, data_list[InputIndices[k]], InputIndices[k])
    /\ UNCHANGED <<outer_vars, call, files, p, data_list, ilist, output_data,
                   failed_decompositions, i, printed, pc>>

\* lines 96-126: the pool returns the result list; the empty output is made
Gather ==
    /\ pc = "pool"
    /\ \A k \in 1..Len(result_list) : result_list[k] # Pending
    /\ output_data' = [key \in KeySet(new_keys) |-> <<>>]
    /\ failed_decompositions' = <<>>
    /\ i' = 0
    /\ pc' = "loop"
    /\ UNCHANGED <<outer_vars, call, files, p, agd, data_list, ilist, result_list, printed>>

\* lines 128-176: the loop handles the next result; an exception the except
\* clause does not catch leaves batch_decomposition
ProcessResult ==
    /\ pc = "loop"
    /\ i < Len(result_list)
    /\ LET b == LoopBody(output_data, failed_decompositions, i, result_list[i + 1])
       IN  /\ output_data' = b.od
           /\ failed_decompositions' = b.failed
           /\ IF b.exc = ""
              THEN i' = i + 1 /\ pc' = pc
              ELSE i' = i /\ pc' = "raised"
    /\ UNCHANGED <<outer_vars, call, files, p, agd, data_list, ilist, result_list, printed>>

\* lines 178-183: the summary of the failed spectra, then the return
Finish ==
    /\ pc = "loop"
    /\ i = Len(result_list)
    /\ printed' = IF failed_decompositions # <<>>
                  THEN printed \o <<"Could not fit the following spectra">>
                       \o failed_decompositions
                  ELSE printed
    /\ pc' = "done"
    /\ UNCHANGED <<outer_vars, call, files, p, agd, data_list, ilist, result_list, output_data,
                   failed_decompositions, i>>

Next ==
    \/ StartBatch
    \/ Worker
    \/ Gather
    \/ ProcessResult
    \/ Finish

Spec == Init /\ [][Next]_vars

(***************************************************************************)
(* GaussPyDecompose (decomposition/decompose.py).  The object is a record  *)
(* of the attributes its methods read and of its position: "idle" (no      *)
(* call), "start" (decompose has called start_decomposition), "batch"      *)
(* (start_decomposition has called batch_decomposition), "cleanup"         *)
(* (start_decomposition has returned to decompose), "returned", "raised".  *)
(* effects lists what the running decompose call has done so far.          *)
(***************************************************************************)
FinalFile == "_fit_fin.pickle"
InitialFile == "_fit_ini.pickle"

\* the GaussPyDecompose objects a user may have configured.  The attribute
\* save_initial_guesses is None while the user has not assigned it (the
\* name is then the method of the class), pickled_testing is the entry
\* 'testing' of the pickled data (None: no such entry).
GPDObjects ==
    [pc : {"idle"}, exc : {""}, effects : {<<>>}, returned : {None},
     decomposition : {None},
     alpha1 : {None, Some(1)}, alpha2 : {None, Some(2)},
     two_phase_decomposition : BOOLEAN, improve_fitting : BOOLEAN,
     use_ncpus : {None, Some(2)}, testing : {FALSE},
     pickled_testing : {None, Some(TRUE)},
     single_prepared_spectrum : {None} \cup {Some(s) : s \in BatchSpectra},
     save_initial_guesses : {None, Some(TRUE), Some(FALSE)}]

\* BaseChecks.raise_exception_if_attribute_is_none
raise_exception_if_attribute_is_none(g, attribute) == g[attribute] = None

\* the property fitting: the improve-fit settings built from the attributes
fitting(g) ==
    Some([improve_fitting |-> g.improve_fitting, max_amp_factor |-> 2,
          max_fwhm |-> None])

\* GPD_decompose without the assignment use_ncpus = 1 of single mode
GPD_decompose_keeps_ncpus(g) ==
    LET g0 == [g EXCEPT !.exc = "", !.effects = <<>>, !.returned = None,
                        !.pc = "start"]
    IN  IF g.single_prepared_spectrum # None
        THEN [g0 EXCEPT !.testing = TRUE]
        ELSE IF g.pickled_testing # None
             THEN LET t == g.pickled_testing[1]
                  IN  [g0 EXCEPT !.testing = t,
                                 !.use_ncpus = IF t THEN Some(1) ELSE @]
             ELSE g0

\* decompose, lines 90-102: up to the call of start_decomposition
GPD_decompose(g) ==
    LET g0 == [g EXCEPT !.exc = "", !.effects = <<>>, !.returned = None,
                        !.pc = "start"]
    IN  IF g.single_prepared_spectrum # None
        THEN [g0 EXCEPT !.testing = TRUE, !.use_ncpus = Some(1)]
        ELSE IF g.pickled_testing # None
             THEN LET t == g.pickled_testing[1]
                  IN  [g0 EXCEPT !.testing = t,
                                 !.use_ncpus = IF t THEN Some(1) ELSE @]
             ELSE g0

\* start_decomposition, lines 146-161: the decomposer and its settings
GPD_decomposer(g) ==
    LET s1 == set(InitialSettings, "use_ncpus", g.use_ncpus)
        s2 == set(s1, "SNR_thresh", 5)
        s3 == set(s2, "SNR2_thresh", 5)
        s4 == set(s3, "settings_improve_fit", fitting(g))
        s5 == set(s4, "alpha1", g.alpha1)
        s6 == IF g.testing THEN set(set(s5, "verbose", TRUE), "plot", TRUE)
              ELSE s5
    IN  IF g.two_phase_decomposition
        THEN set(set(s6, "phase", "two"), "alpha2", g.alpha2)
        ELSE set(s6, "phase", "one")

\* GPD_start without the test of alpha2
GPD_start_alpha2_unchecked(g) ==
    IF raise_exception_if_attribute_is_none(g, "alpha1")
    THEN [g EXCEPT !.pc = "raised", !.exc = "Exception"]
    ELSE [g EXCEPT !.pc = "batch",
                   !.effects = <<"decomposer", "batch_decomposition">>]

\* start_decomposition, lines 137-166: up to the call of
\* batch_decomposition
GPD_start(g) ==
    IF raise_exception_if_attribute_is_none(g, "alpha1")
    THEN [g EXCEPT !.pc = "raised", !.exc = "Exception"]
    ELSE IF /\ g.two_phase_decomposition
            /\ raise_exception_if_attribute_is_none(g, "alpha2")
         THEN [g EXCEPT !.pc = "raised", !.exc = "Exception"]
         ELSE [g EXCEPT !.pc = "batch",
                        !.effects = <<"decomposer", "batch_decomposition">>]

\* start_decomposition, lines 163-171, and the return of decompose at line
\* 95: batch_decomposition has ended with outcome (its pc) and out
GPD_after_batch(g, outcome, out) ==
    IF outcome = "raised"
    THEN [g EXCEPT !.pc = "raised", !.exc = "batch_decomposition"]
    ELSE IF g.single_prepared_spectrum # None
    THEN [g EXCEPT !.pc = "returned", !.returned = Some(out)]
    ELSE
    LET g1 == [g EXCEPT !.decomposition = Some(out),
                        !.effects = Append(@, "save_final_results")]
    IN  IF g.save_initial_guesses = None
        THEN [g1 EXCEPT !.effects = Append(@, "save_initial_guesses"),
                        !.pc = "cleanup"]
        ELSE IF g.save_initial_guesses[1]
             THEN [g1 EXCEPT !.pc = "raised", !.exc = "TypeError"]
             ELSE [g1 EXCEPT !.pc = "cleanup"]

\* the files a decompose call has written when it has done effects
Written(effects) ==
    {FinalFile : k \in {k \in 1..Len(effects) : effects[k] = "save_final_results"}}
    \cup
    {InitialFile : k \in {k \in 1..Len(effects) : effects[k] = "save_initial_guesses"}}

(***************************************************************************)
(* Specification SpecGPD: a user who calls decompose on one                *)
(* GaussPyDecompose object again and again and may change improve_fitting  *)
(* between two calls.  The science data of the pickle file is one          *)
(* spectrum.                                                               *)
(***************************************************************************)
InitGPD ==
    /\ p = None
    /\ agd = IdleFrame
    /\ data_list \in [{0} -> BatchSpectra]
    /\ ilist = None
    /\ result_list = <<>>
    /\ output_data = <<>>
    /\ failed_decompositions = <<>>
    /\ i = 0
    /\ printed = <<>>
    /\ pc = "none"
    /\ call = NoCall
    /\ files = {}
    /\ ig = IdleGuess
    /\ gpd \in GPDObjects

\* the user assigns the attribute improve_fitting between two calls
SetImproveFitting ==
    /\ gpd.pc \in {"idle", "returned", "raised"}
    /\ \E b \in BOOLEAN : gpd' = [gpd EXCEPT !.improve_fitting = b]
    /\ UNCHANGED <<p, agd, batch_vars, ig>>

\* decompose is called
GPDDecompose ==
    /\ gpd.pc \in {"idle", "returned", "raised"}
    /\ gpd' = GPD_decompose(gpd)
    /\ printed' = <<>>
    /\ UNCHANGED <<p, agd, data_list, ilist, result_list, output_data,
                   failed_decompositions, i, pc, call, files, ig>>

\* start_decomposition runs up to its call of batch_decomposition
GPDStart ==
    /\ gpd.pc = "start"
    /\ gpd' = GPD_start(gpd)
    /\ IF gpd'.pc = "batch"
       THEN /\ p' = GPD_decomposer(gpd)
            /\ printed' = Append(printed, "Given key does not exist.")
            /\ call' = IF gpd.single_prepared_spectrum # None
                       THEN BatchCall(None, gpd.single_prepared_spectrum)
                       ELSE BatchCall(Some("science_data.pickle"), None)
            /\ pc' = "idle"
       ELSE UNCHANGED <<p, printed, call, pc>>
    /\ UNCHANGED <<agd, data_list, ilist, result_list, output_data,
                   failed_decompositions, i, files, ig>>

\* gp.py lines 97-126, single mode: one direct call of decompose_one(0) on
\* the spectrum passed as dct.  An AGD call that raises either ends the
\* call of batch_decomposition or comes back as a result of decompose_one.
SingleSpectrum ==
    /\ pc = "idle"
    /\ call.args = None
    /\ LET science == [k \in {0} |-> call.dct[1]]
       IN  /\ agd' = decompose(p, science[0], 0)
           /\ \E f \in AGD(agd', BatchCandidates(1), BatchCandidates(2),
                            BatchImproved) :
                 \/ /\ \E r \in WorkerResults(f) : result_list' = <<r>>
                    /\ output_data' = [key \in KeySet(new_keys) |-> <<>>]
                    /\ pc' = "loop"
                 \/ /\ f.pc = "raised"
                    /\ result_list' = <<>>
                    /\ output_data' = <<>>
                    /\ pc' = "raised"
    /\ failed_decompositions' = <<>>
    /\ i' = 0
    /\ UNCHANGED <<p, data_list, ilist, printed, call, files, outer_vars>>

\* batch_decomposition has ended: start_decomposition goes on to its end
AfterBatch ==
    /\ gpd.pc = "batch"
    /\ pc \in {"done", "raised"}
    /\ gpd' = GPD_after_batch(gpd, pc, output_data)
    /\ files' = files \cup Written(gpd'.effects)
    /\ p' = None
    /\ call' = NoCall
    /\ pc' = "none"
    /\ result_list' = <<>>
    /\ output_data' = <<>>
    /\ failed_decompositions' = <<>>
    /\ i' = 0
    /\ agd' = IdleFrame
    /\ UNCHANGED <<data_list, ilist, printed, ig>>

\* decompose, lines 104-105: the temp file is removed
Cleanup ==
    /\ gpd.pc = "cleanup"
    /\ files' = files \ {TempFile}
    /\ gpd' = [gpd EXCEPT !.pc = "returned"]
    /\ UNCHANGED <<p, agd, data_list, ilist, result_list, output_data,
                   failed_decompositions, i, printed, pc, call, ig>>

NextGPD ==
    \/ SetImproveFitting
    \/ GPDDecompose
    \/ GPDStart
    \/ StartBatch
    \/ Worker
    \/ Gather
    \/ SingleSpectrum
    \/ ProcessResult
    \/ Finish
    \/ AfterBatch
    \/ Cleanup

SpecGPD == InitGPD /\ [][NextGPD]_vars

(***************************************************************************)
(* Properties of batch_decomposition, checked under Spec.                  *)
(***************************************************************************)
Aggregating == pc \in {"loop", "done", "raised"}

Structural(r) == r.kind \in {"None", "exc"}

\* C1: batch_decomposition never aborts the batch: whatever the workers
\* returned (None, or a result dict of AGD, also one with N_components > 0
\* and no best-fit keys), no exception leaves batch_decomposition.
C1_NeverAborts == pc # "raised"

\* the number of results the loop has taken up, the one it raised on included
Taken == IF pc = "raised" THEN i + 1 ELSE i

\* entry j of the output belongs to result r: it carries r's index, counts
\* and vectors, or, for a structural failure, None
BelongsTo(j, r) ==
    IF r.kind = "dict"
    THEN /\ output_data["index_fit"][j] = Some(r.d["index"])
         /\ output_data["N_components"][j] = Some(r.d["N_components"])
         /\ output_data["amplitudes_initial"][j][1]
               \o output_data["fwhms_initial"][j][1]
               \o output_data["means_initial"][j][1] = r.d["initial_parameters"]
         /\ r.d["N_components"] > 0 =>
               /\ output_data["amplitudes_fit"][j][1]
                     \o output_data["fwhms_fit"][j][1]
                     \o output_data["means_fit"][j][1] = r.d["best_fit_parameters"]
               /\ output_data["amplitudes_fit_err"][j][1]
                     \o output_data["fwhms_fit_err"][j][1]
                     \o output_data["means_fit_err"][j][1] = r.d["best_fit_errors"]
         /\ \A key \in KeySet(optional_keys) :
               output_data[key][j] =
                   IF key \in DOMAIN r.d THEN Some(r.d[key]) ELSE None
    ELSE \A key \in KeySet(new_keys) \ {"index_fit"} : output_data[key][j] = None

\* C2: the batch output stays aligned: after the loop has taken up k results
\* (successful or failed, also one whose unpacking fails part-way) each of
\* the 19 lists has length exactly k and entry j of each belongs to result j.
C2_Aligned ==
    Aggregating =>
        /\ DOMAIN output_data = KeySet(new_keys)
        /\ Cardinality(DOMAIN output_data) = 19
        /\ \A key \in KeySet(new_keys) : Len(output_data[key]) = Taken
        /\ \A j \in 1..Taken : BelongsTo(j, result_list[j])

\* the part of C2 the code keeps: the 19 lists have one entry for each
\* result the loop handled without an escaping exception
AlignedUntilAbort ==
    Aggregating =>
        /\ DOMAIN output_data = KeySet(new_keys)
        /\ Cardinality(DOMAIN output_data) = 19
        /\ \A key \in KeySet(new_keys) : Len(output_data[key]) = i
        /\ \A j \in 1..i : BelongsTo(j, result_list[j])

\* the loop has just handled a structural failure at 0-based position i
HandlesStructuralFailure ==
    /\ pc = "loop"
    /\ i' = i + 1
    /\ Structural(result_list[i + 1])

C4_IndexSequence ==
    pc = "done" =>
        output_data["index_fit"] =
            [k \in 1..Len(InputIndices) |-> Some(InputIndices[k])]

\* position k of the input holds a spectrum with a NaN channel
NaNAt(k) == data_list[InputIndices[k]].nan

\* entry k of the output is a None entry / a well-formed entry
NoneEntry(k) ==
    \A key \in KeySet(new_keys) \ {"index_fit"} : output_data[key][k] = None
WellFormedEntry(k) ==
    \A key \in KeySet(new_keys) \ KeySet(optional_keys) :
        output_data[key][k] # None

\* C5: a batch in which exactly one spectrum has a NaN channel completes
\* without raising and yields a None entry at the position of the NaN
\* spectrum and well-formed entries at all other positions.
C5_OneNaN ==
    (/\ pc \in {"done", "raised"}
     /\ Cardinality({k \in 1..Len(InputIndices) : NaNAt(k)}) = 1)
    => /\ pc = "done"
       /\ \A k \in 1..Len(InputIndices) :
             IF NaNAt(k) THEN NoneEntry(k) ELSE WellFormedEntry(k)

(***************************************************************************)
(* Properties of AGD, checked under SpecAGD.                               *)
(***************************************************************************)
\* C6: the improve-fit settings bundle passed into AGD is never mutated: no
\* step of any AGD call changes the keys or values of the caller's
\* improve_fitting_dict.
C6_SettingsNotMutated ==
    [][p'["improve_fitting_dict"] = p["improve_fitting_dict"]]_vars

\* C7: whenever AGD's output carries best_fit_parameters, its length is
\* 3 * N_components and the slices [0:N], [N:2N], [2N:3N] each have length
\* N_components; the same holds for best_fit_errors.
C7_VectorLayout ==
    (agd.pc = "done" /\ "best_fit_parameters" \in DOMAIN agd.odict) =>
        LET n == agd.odict["N_components"]
            Layout(v) == /\ Len(v) = 3 * n
                         /\ Len(PySlice(v, 0, n)) = n
                         /\ Len(PySlice(v, n, 2 * n)) = n
                         /\ Len(PySlice(v, 2 * n, 3 * n)) = n
        IN  /\ Layout(agd.odict["best_fit_parameters"])
            /\ "best_fit_errors" \in DOMAIN agd.odict
            /\ Layout(agd.odict["best_fit_errors"])

\* an output with a final vector of two components after the improve step
\* changed the number of components
C7_Witness ==
    /\ agd.pc = "done"
    /\ "best_fit_parameters" \in DOMAIN agd.odict
    /\ agd.odict["N_components"] = 2
    /\ agd.best_fit_list # None
    /\ Len(agd.odict["initial_parameters"]) # 3 * agd.odict["N_components"]

\* C8: in AGD's output the initial-guess fields are always present, and the
\* best-fit fields are present only if a final fit was attempted
\* (perform_final_fit and at least one guessed component) and the solver
\* reported success.
C8_BestFitOnlyOnSuccess ==
    agd.pc = "done" =>
        /\ {"initial_parameters", "N_components", "index"} \subseteq DOMAIN agd.odict
        /\ ({"best_fit_parameters", "best_fit_errors"} \cap DOMAIN agd.odict # {}) =>
              /\ agd.perform_final_fit
              /\ Len(agd.odict["initial_parameters"]) > 0
              /\ agd.result2_success = Some(TRUE)

\* C9: guess combination: with phase 'two' and n2 > 0 phase-two candidates
\* the final guess vector is [amps1 ++ amps2, fwhms1 ++ fwhms2,
\* means1 ++ means2] with n1 + n2 components, every component keeping its
\* triple at a shared index; otherwise it is exactly the phase-one set.
C9_Combination ==
    agd.pc = "sort" =>
        /\ agd.agd_phase1 # None
        /\ LET g1 == agd.agd_phase1[1]
               n1 == g1.N_components
               v == agd.params_guess_final
               n == agd.ncomps_guess_final
           IN  IF agd.phase = "two" /\ agd.agd_phase2[1].N_components > 0
               THEN LET g2 == agd.agd_phase2[1]
                        n2 == g2.N_components
                    IN  /\ n = n1 + n2
                        /\ v = (g1.amps \o g2.amps) \o (g1.FWHMs \o g2.FWHMs)
                               \o (g1.means \o g2.means)
                        /\ \A k \in 1..n1 :
                              <<v[k], v[n + k], v[2 * n + k]>> =
                              <<g1.amps[k], g1.FWHMs[k], g1.means[k]>>
                        /\ \A k \in 1..n2 :
                              <<v[n1 + k], v[n + n1 + k], v[2 * n + n1 + k]>> =
                              <<g2.amps[k], g2.FWHMs[k], g2.means[k]>>
               ELSE /\ n = n1
                    /\ v = g1.amps \o g1.FWHMs \o g1.means

\* both phases found candidates and their sets were combined
C9_Witness ==
    /\ agd.pc = "sort"
    /\ agd.phase = "two"
    /\ agd.ncomps_guess_phase1 = 2
    /\ agd.ncomps_guess_phase2 >= 1
    /\ agd.ncomps_guess_final = agd.ncomps_guess_phase1 + agd.ncomps_guess_phase2

\* triple k of the sorted guess vector, triple j of the unsorted one
SortedTriple(k) ==
    LET n == agd.ncomps_guess_final
        v == agd.params_guess_final
    IN  <<v[k], v[n + k], v[2 * n + k]>>
UnsortedTriple(j) == <<agd.amps_temp[j], agd.widths_temp[j], agd.offsets_temp[j]>>

\* the input position of the candidate at sorted position k (the means of
\* the candidates are pairwise different)
InputPosition(k) ==
    CHOOSE j \in 1..agd.ncomps_guess_final : UnsortedTriple(j) = SortedTriple(k)

\* the sorted vector holds the same triples as the unsorted one
PermutationOfTriples ==
    LET n == agd.ncomps_guess_final
    IN  /\ Len(agd.params_guess_final) = 3 * n
        /\ Len(agd.amps_temp) = n
        /\ \A k \in 1..n : \E j \in 1..n : UnsortedTriple(j) = SortedTriple(k)
        /\ \A j \in 1..n : \E k \in 1..n : UnsortedTriple(j) = SortedTriple(k)

NonIncreasing ==
    \A a, b \in 1..agd.ncomps_guess_final :
        a < b => agd.params_guess_final[a] >= agd.params_guess_final[b]

\* C10 as stated: the sort before the fit is a permutation of the
\* candidates that keeps each triple together, amplitudes are
\* non-increasing, and candidates of equal amplitude keep their relative
\* input order.
C10_StableSort ==
    agd.pc = "fit" =>
        /\ PermutationOfTriples
        /\ NonIncreasing
        /\ \A a, b \in 1..agd.ncomps_guess_final :
              (a < b /\ agd.params_guess_final[a] = agd.params_guess_final[b])
              => InputPosition(a) < InputPosition(b)

\* C10 amended: the sort before the fit is a permutation of the candidates
\* that keeps each triple together, and amplitudes are non-increasing (the
\* order among candidates of equal amplitude is not fixed).
C10_SortedDescending ==
    agd.pc = "fit" => PermutationOfTriples /\ NonIncreasing

\* the sort rearranged at least three candidates, two of equal amplitude
C10_Witness ==
    /\ agd.pc = "fit"
    /\ agd.ncomps_guess_final >= 3
    /\ agd.amps_temp # PySlice(agd.params_guess_final, 0, agd.ncomps_guess_final)
    /\ \E a, b \in 1..agd.ncomps_guess_final :
          a # b /\ agd.amps_temp[a] = agd.amps_temp[b]

\* the phase-two section of a two-phase AGD call has just run
PhaseTwoRan == agd.pc = "phase2" /\ agd.phase = "two" /\ agd'.pc # "phase2"

\* C11: in two-phase mode the residual handed to the phase-two guesser is
\* the original data whenever phase one found zero components (and then no
\* intermediate solver call is made) or the intermediate solver reports
\* failure; only on solver success is it the median-filtered difference;
\* a failed intermediate fit is never propagated as an error.
C11_Residual ==
    [][PhaseTwoRan =>
          /\ agd.ncomps_guess_phase1 = 0 =>
                 agd'.residuals = "data" /\ agd'.result_success = None
          /\ agd'.result_success = Some(FALSE) =>
                 agd'.residuals = "data" /\ agd'.pc = "combine"
          /\ agd'.residuals = "filtered" <=> agd'.result_success = Some(TRUE)
          /\ agd'.residuals \in {"data", "filtered"}]_vars

\* the intermediate fit of two phase-one candidates failed and the
\* phase-two guess went on with the original data
C11_Witness ==
    /\ agd.pc = "combine"
    /\ agd.phase = "two"
    /\ agd.ncomps_guess_phase1 = 2
    /\ agd.result_success = Some(FALSE)
    /\ agd.residuals = "data"
    /\ agd.ncomps_guess_phase2 = 1

(***************************************************************************)
(* Properties of initialGuess, checked under SpecGuess.                    *)
(***************************************************************************)
\* the deblending of an initialGuess call with candidates has run
Deblended == ig.pc = "done" /\ ~ ig.nan /\ ig.N_components > 0

\* C12: the least-squares corrected amplitudes replace the raw amplitudes
\* if and only if all corrected amplitudes are non-negative (>= 0);
\* otherwise the raw amplitudes are kept; the candidate count, means and
\* FWHMs are unaffected, and no returned amplitude comes from a correction
\* that contained a negative value.
C12_Deblending ==
    Deblended =>
        LET out == ig.odict[1]
            n == ig.N_components
            nonneg == \A k \in 1..n : ig.amps_new[k] >= 0
        IN  /\ (out.amps = ig.amps_new) <=> nonneg
            /\ ~ nonneg => out.amps = ig.amps_raw
            /\ out.N_components = n
            /\ out.means = ig.indices_of_offsets
            /\ out.FWHMs = [k \in 1..n |-> 100 + ig.indices_of_offsets[k]]
            /\ out.amps \in {ig.amps_new, ig.amps_raw}

\* the candidates of an initialGuess call were selected with a
\* second-derivative threshold that SNR2_thresh <= 0 sets
SelectedWithoutSNR2 ==
    ig.pc \in {"deblend", "done"} /\ ~ ig.nan /\ ig.SNR2_thresh <= 0

\* C13 as stated: when SNR2_thresh is not greater than 0 the
\* second-derivative threshold is zero and the second-derivative mask is
\* true for every channel, so candidates are selected only by the
\* third-derivative sign change, the raw-intensity mask and the
\* positive-fourth-derivative mask, whatever the sign of the second
\* derivative.
C13_MaskAlwaysTrue ==
    SelectedWithoutSNR2 =>
        /\ ig.thresh2 = 0
        /\ \A c \in 1..Len(ig.chans) :
              /\ ig.mask4[c]
              /\ ig.zeros[c] <=>
                     (ig.chans[c].zero /\ ig.chans[c].mask1 /\ ig.chans[c].mask3)

\* C13 amended: when SNR2_thresh is not greater than 0 the
\* second-derivative threshold is zero and the second-derivative mask is
\* true exactly at the channels with a negative second derivative, so
\* candidates are selected by the third-derivative sign change, the
\* raw-intensity mask, the positive-fourth-derivative mask and a negative
\* second derivative.
C13_MaskNegativeU2 ==
    SelectedWithoutSNR2 =>
        /\ ig.thresh2 = 0
        /\ \A c \in 1..Len(ig.chans) :
              /\ ig.mask4[c] <=> ig.chans[c].u2 < 0
              /\ ig.zeros[c] <=>
                     (/\ ig.chans[c].zero /\ ig.chans[c].mask1
                      /\ ig.chans[c].mask3 /\ ig.chans[c].u2 < 0)

\* with SNR2_thresh <= 0 one channel was selected and another one, which
\* passes the three other tests, was left out for its second derivative
C13_Witness ==
    /\ SelectedWithoutSNR2
    /\ ig.pc = "done"
    /\ ig.N_components = 1
    /\ \E c \in 1..Len(ig.chans) :
          /\ ig.chans[c].zero /\ ig.chans[c].mask1 /\ ig.chans[c].mask3
          /\ ig.chans[c].u2 >= 0
          /\ ~ ig.zeros[c]

\* C17: the smoothing kernel has half-width max(round(alpha), 5) * 6 for
\* every alpha > 0: alpha is rounded to the nearest integer, not
\* truncated, before the maximum with 5 is taken (alpha = 5.6 gives 36).
C17_KernelHalfWidth ==
    (ig.pc \in {"threshold", "optima", "deblend", "done"} /\ ~ ig.nan) =>
        ig.gauss_dn = Max2(Round(ig.alpha10), 5) * 6

(***************************************************************************)
(* More properties of AGD, checked under SpecAGD.                          *)
(***************************************************************************)
\* C20: AGD returns (1, result dict) for every combination of its control
\* flags on a NaN-free spectrum (perform_final_fit true or false, improve
\* fitting on or off, phase 'one' or 'two', any number >= 0 of guessed
\* components): every value AGD reads has been assigned before it is read,
\* so no AGD call on such a spectrum ends in an exception.
C20_AlwaysReturns ==
    /\ agd.pc = "raised" => agd.data.nan
    /\ agd.exc # "UnboundLocalError"

(***************************************************************************)
(* Properties of GaussianDecomposer.set, checked under SpecSet.            *)
(***************************************************************************)
\* C18: set(key, value): for a key already in the settings dictionary it
\* changes that entry to value and leaves every other entry unchanged; for
\* a key not in the dictionary it leaves the whole dictionary unchanged
\* (no entry added), so after any sequence of set calls the key set of the
\* settings dictionary equals the key set at construction.
C18_SetFrame ==
    [][call'.method = "set" =>
          /\ DOMAIN p' = DOMAIN InitialSettings
          /\ IF call'.key \in DOMAIN p
             THEN /\ p'[call'.key] = call'.value
                  /\ \A k \in DOMAIN p \ {call'.key} : p'[k] = p[k]
             ELSE p' = p]_vars

\* a set of an unknown key after earlier calls changed known entries
C18_Witness ==
    /\ call.method = "set"
    /\ call.key = "settings_improve_fit"
    /\ call.value # None
    /\ p["phase"] = "two"
    /\ p["alpha1"] = Some(1)
    /\ Len(printed) = 1

(***************************************************************************)
(* More properties of batch_decomposition, checked under Spec.             *)
(***************************************************************************)
\* the entry at position j of the output was replaced by None
ReplacedByNone(j) == output_data["N_components"][j] = None

\* C16: the summary of failed spectra is emitted once, after every result
\* has been processed and never between the processing of two results, and
\* it lists every spectrum whose entry was replaced by None (spectra whose
\* worker result is None included) together with its index.
C16_FailureSummary ==
    /\ pc # "done" => printed = <<>>
    /\ pc = "done" =>
          /\ i = Len(result_list)
          /\ \A j \in 1..Len(result_list) :
                ReplacedByNone(j) =>
                    /\ Len(printed) >= 2
                    /\ \E k \in 2..Len(printed) :
                          printed[k].index \in {j - 1, InputIndices[j]}
          /\ Len(printed) <= 1 + Len(result_list)

(***************************************************************************)
(* Properties of GaussPyDecompose, checked under SpecGPD.                  *)
(***************************************************************************)
\* the engine is called with improve-fit settings that switch the improve
\* step on
EngineImproves ==
    /\ p["improve_fitting_dict"] # None
    /\ p["improve_fitting_dict"][1]["improve_fitting"]

\* C14: settings set on GaussPyDecompose take effect in the engine on the
\* next decompose() call: a run started with improve_fitting false calls
\* the engine without improve-fit settings, and a run started after
\* improve_fitting was set to true calls it with the current improve-fit
\* settings (the decomposer's stored entry is non-None and improve fitting
\* is performed).
C14_SettingsTakeEffect ==
    gpd.pc = "batch" => (EngineImproves <=> gpd.improve_fitting)

\* a decompose call in single-spectrum mode is running or has ended
SingleMode(g) ==
    /\ g.single_prepared_spectrum # None
    /\ g.pc \in {"start", "batch", "returned", "raised"}

\* C15: single-spectrum mode forces the parallelism degree to 1: whenever
\* single_prepared_spectrum is set, decompose() sets use_ncpus to 1 before
\* the decomposition starts, whatever the user configured; the spectrum is
\* decomposed by one direct in-process call (no worker pool, no temp-file
\* handoff), and the batch output mapping is returned to the caller
\* without being persisted.
C15_SingleMode ==
    [][SingleMode(gpd') =>
          /\ gpd'.use_ncpus = Some(1)
          /\ gpd'.pc = "batch" =>
                 /\ p'["use_ncpus"] = Some(1)
                 /\ call'.args = None /\ call'.dct = gpd'.single_prepared_spectrum
                 /\ pc' \notin {"pool"}
                 /\ Len(result_list') <= 1
          /\ files' = files
          /\ Written(gpd'.effects) = {}
          /\ (gpd.pc = "batch" /\ gpd'.pc = "returned") =>
                 /\ pc = "done"
                 /\ gpd'.returned = Some(output_data)
                 /\ gpd'.decomposition = gpd.decomposition]_vars

\* a single spectrum with one fitted component was decomposed and the
\* output mapping handed back
C15_Witness ==
    /\ SingleMode(gpd)
    /\ gpd.pc = "returned"
    /\ gpd.returned # None
    /\ gpd.returned[1]["N_components"] = <<Some(1)>>
    /\ gpd.use_ncpus = Some(1)
    /\ files = {}

\* a regularization scale start_decomposition needs is missing
MissingAlpha(g) ==
    g.alpha1 = None \/ (g.two_phase_decomposition /\ g.alpha2 = None)

\* C19: start_decomposition refuses to run with missing regularization
\* scales: if alpha1 is None, or two-phase decomposition is enabled and
\* alpha2 is None, it raises before any decomposer is created, any
\* spectrum is dispatched or any result file is written; and the engine
\* receives alpha2 only when the phase is 'two'.
C19_RefusesMissingAlpha ==
    [][/\ (gpd.pc = "start" /\ gpd'.pc # "start") =>
             IF MissingAlpha(gpd)
             THEN /\ gpd'.pc = "raised"
                  /\ gpd'.effects = <<>>
                  /\ p' = None /\ p = None
                  /\ call' = NoCall
                  /\ result_list' = <<>>
                  /\ files' = files
             ELSE /\ gpd'.pc = "batch"
                  /\ p'["alpha1"] = gpd.alpha1
       /\ agd'.pc = "enter" =>
             /\ agd'.alpha1 # None
             /\ agd'.alpha2 # None => agd'.phase = "two"
             /\ agd'.phase = "two" => agd'.alpha2 # None]_vars

\* two-phase decomposition without alpha2 was refused
C19_Witness ==
    /\ gpd.pc = "raised"
    /\ gpd.alpha1 # None
    /\ gpd.two_phase_decomposition
    /\ gpd.alpha2 = None
    /\ gpd.effects = <<>>
    /\ p = None

\* the frames a worker's AGD call can have ended in when it returned the
\* result at input position j
ReturningFrames(j) ==
    {f \in AGD(decompose(p, data_list[InputIndices[j]], InputIndices[j]),
               BatchCandidates(1), BatchCandidates(2), BatchImproved) :
        f.pc = "done" /\ f.odict = result_list[j].d}

\* the guess vector of frame f before any fit: the guessed amplitudes,
\* FWHMs and means, each in the order of descending amplitude
SortedGuess(f) ==
    Take(f.amps_temp, f.w_sort_amp) \o Take(f.widths_temp, f.w_sort_amp)
    \o Take(f.offsets_temp, f.w_sort_amp)

\* the output fields that hold the initial guesses
initial_keys ==
    {"N_components_initial", "amplitudes_initial", "fwhms_initial",
     "means_initial"}

\* C21: initial-guess and final counts are kept apart.  With improve
\* fitting enabled the N_components field of AGD's result is the component
\* count the improve step returned, while initial_parameters stays the
\* amplitude-sorted guess vector; batch_decomposition takes
\* N_components_initial as len(initial_parameters) / 3 and slices the
\* initial fields with it, so for every dict result the loop handles they
\* are the number of guesses and the guessed amplitudes, FWHMs and means
\* whatever the improve step did to the number of components, and the
\* entries of the results handled before stay as they are.
C21_CountsKeptApart ==
    [][(pc = "loop" /\ i' = i + 1) =>
          LET j == i + 1
              d == result_list[j].d
          IN
          /\ \A key \in initial_keys \cup {"N_components"} :
                \A k \in 1..i : output_data'[key][k] = output_data[key][k]
          /\ result_list[j].kind = "dict" =>
                /\ ReturningFrames(j) # {}
                /\ \A f \in ReturningFrames(j) :
                      LET n == Len(f.amps_temp)
                          sorted == Take(f.amps_temp, f.w_sort_amp)
                      IN
                      /\ f.dct["improve_fitting"] =>
                            /\ d["N_components"] = f.best_fit_list[1].ncomps_fit
                            /\ output_data'["N_components"][j] =
                                   Some(f.best_fit_list[1].ncomps_fit)
                      /\ d["initial_parameters"] = SortedGuess(f)
                      /\ \A k \in 1..(n - 1) : sorted[k] >= sorted[k + 1]
                      /\ output_data'["N_components_initial"][j] = Some(n)
                      /\ output_data'["amplitudes_initial"][j] = Some(sorted)
                      /\ output_data'["fwhms_initial"][j] =
                             Some(Take(f.widths_temp, f.w_sort_amp))
                      /\ output_data'["means_initial"][j] =
                             Some(Take(f.offsets_temp, f.w_sort_amp))]_vars

\* a result of two guesses from which the improve step kept one component
\* has been aggregated
C21_Witness ==
    /\ pc \in {"loop", "done"}
    /\ i >= 1
    /\ result_list[1].kind = "dict"
    /\ p["improve_fitting_dict"] # None
    /\ p["improve_fitting_dict"][1]["improve_fitting"]
    /\ Len(result_list[1].d["initial_parameters"]) = 6
    /\ output_data["N_components"][1] = Some(1)
    /\ output_data["N_components_initial"][1] = Some(2)
    /\ Len(output_data["amplitudes_initial"][1][1]) = 2

\* the call of decompose has ended: it returned or an exception left it
DecomposeEnded == gpd.pc \in {"returned", "raised"}

\* C22: lifecycle of the temp-file handoff.  In batch mode the file
\* batchdecomp_temp.pickle is in the working directory before any worker
\* is started, and once decompose has ended, whether it returned or
\* start_decomposition raised, the file is no longer in the working
\* directory.
C22_TempFileLifecycle ==
    /\ (pc = "pool" /\ call.args # None) => TempFile \in files
    /\ DecomposeEnded => TempFile \notin files

\* the running or ended call of decompose has done effect e
Done(e) == \E k \in 1..Len(gpd.effects) : gpd.effects[k] = e

\* C23: in batch mode start_decomposition persists results in a fixed
\* order and under a flag: the final results are saved first, the initial
\* guesses are saved afterwards if and only if the boolean setting
\* save_initial_guesses is true, and setting that flag to true or false
\* never makes start_decomposition raise after the final results were
\* written.
C23_SaveOrder ==
    (gpd.single_prepared_spectrum = None /\ Done("save_final_results")) =>
        /\ gpd.pc # "raised"
        /\ gpd.save_initial_guesses # None =>
              (Done("save_initial_guesses") <=> gpd.save_initial_guesses[1])
        /\ \A a, b \in 1..Len(gpd.effects) :
              (/\ gpd.effects[a] = "save_final_results"
               /\ gpd.effects[b] = "save_initial_guesses") => a < b

====
